---- MODULE Spec2Model ----
(***************************************************************************)
(* gap: stacked git branches.  The stacks file (src/utils/stack.js), the   *)
(* create command (src/commands/create.js) and the cascading rebase of     *)
(* the modify command (src/commands/modify.js) as a state machine.         *)
(***************************************************************************)
EXTENDS Integers, Sequences, FiniteSets, TLC

\* ------------------------------------------------------------------------
\* Bounds
\* ------------------------------------------------------------------------

\* number of feature branches beside main
MaxFeatures == 3

\* number of stack names a user may type
MaxStacks == 2

\* number of stack operations and create commands in one run
MaxOps == 4

\* number of feature branches in the runs of the stack operations
MaxStoreFeatures == 2

\* number of local branches beside the trunk names in a run of getMergedBranches
MaxMergeBranches == 2

FeatureNames == <<"f1", "f2", "f3", "f4", "f5", "f6">>

StackNameList == <<"s1", "s2", "s3", "s4">>

Features == {FeatureNames[i] : i \in 1..MaxFeatures}

Branches == {"main"} \cup Features

StackNames == {StackNameList[i] : i \in 1..MaxStacks}

StoreFeatures == {FeatureNames[i] : i \in 1..MaxStoreFeatures}

StoreBranches == {"main"} \cup StoreFeatures

Repos == {"r1", "r2"}

\* getCurrentRepo() returning null
NoRepo == "no-repo"

\* an absent optional argument / an undefined field
Null == ""

\* status.current while a rebase is stopped on a conflict
Detached == "HEAD"

\* no rebase in progress
None == "none"

\* ------------------------------------------------------------------------
\* Array helpers (Array.prototype.indexOf / includes / slice)
\* ------------------------------------------------------------------------

IndexOf(s, x) ==
  IF \E i \in 1..Len(s) : s[i] = x
    THEN CHOOSE i \in 1..Len(s) : s[i] = x /\ \A j \in 1..(i - 1) : s[j] /= x
    ELSE 0

Includes(s, x) == \E i \in 1..Len(s) : s[i] = x

SliceFrom(s, i) == SubSeq(s, i, Len(s))

RemoveAt(s, i) == SubSeq(s, 1, i - 1) \o SubSeq(s, i + 1, Len(s))

NoDuplicates(s) == \A i, j \in 1..Len(s) : s[i] = s[j] => i = j

Range(s) == {s[i] : i \in 1..Len(s)}

\* ------------------------------------------------------------------------
\* State
\* ------------------------------------------------------------------------

VARIABLES
  stacksFile,      \* ~/.gap/stacks.json : repo identity -> sequence of stack records
  repo,            \* what getCurrentRepo() resolves to
  gitBranches,     \* local branches of the repository
  head,            \* the checked-out branch (Detached while a rebase is stopped)
  dirty,           \* uncommitted changes in the working tree
  rebasing,        \* branch of the rebase stopped on a conflict, or None
  modifyState,     \* git config gap.modify.state : <<>> or <<state>>
  pc,              \* "idle" between invocations, "loop" inside the step loop
  mode,            \* which handler owns the loop: "modify" or "continue"
  localCurrent,    \* const currentBranch of the modify action
  previousBranch,  \* let previousBranch of the loop
  todo,            \* the part of the iterated list not yet visited
  calls,           \* git calls issued by the running / last invocation
  op,              \* the last invoked operation
  outcome,         \* what the last invocation reported
  exitCode,        \* exit code of the last invocation
  origin,          \* the branch the cascade was started on
  doneSet,         \* downstream branches brought up to date in this cascade
  failed,          \* branch whose step failed without a conflict, or None
  discarded,       \* the state clearModifyState last discarded: <<>> or <<state>>
  invocations,     \* number of stack operations and create commands so far
  args,            \* arguments of the last stack operation or query
  result,          \* <<value>> returned by the last query, else <<>>
  md,              \* one run of getMergedBranches: git's answers, the checks, the result
  io,              \* the stacks file on disk and the invocations writing it
  sy               \* one run of gap sync: the merged branches and the deletion loop

vars == <<stacksFile, repo, gitBranches, head, dirty, rebasing, modifyState,
          pc, mode, localCurrent, previousBranch, todo, calls, op, outcome,
          exitCode, origin, doneSet, failed, discarded, invocations,
          args, result, md, io, sy>>

gitVars == <<gitBranches, head, dirty, rebasing>>

cascadeVars == <<modifyState, pc, mode, localCurrent, previousBranch, todo,
                 origin, doneSet, failed, discarded>>

\* what every modify invocation leaves alone
otherVars == <<md, io, sy>>

fixedVars == <<stacksFile, repo, invocations, args, result, otherVars>>

\* ------------------------------------------------------------------------
\* Stack store (src/utils/stack.js)
\* ------------------------------------------------------------------------

\* loadStacks(): a missing repository key reads as no stacks
EmptyFile == [r \in Repos |-> <<>>]

\* the record createStack writes; branchParents is the set of its
\* <<child, parent>> entries (hasParents: the record has the map at all)
NewStack(stackName, baseBranch) ==
  [name |-> stackName, baseBranch |-> baseBranch, branches |-> <<>>,
   hasParents |-> TRUE, branchParents |-> {}]

HasStack(rs, stackName) == \E i \in 1..Len(rs) : rs[i].name = stackName

StackIndex(rs, stackName) == CHOOSE i \in 1..Len(rs) : rs[i].name = stackName

\* stacks[repo][stackName] = value : an existing key keeps its position
PutStack(rs, rec) ==
  IF HasStack(rs, rec.name)
    THEN [i \in 1..Len(rs) |-> IF rs[i].name = rec.name THEN rec ELSE rs[i]]
    ELSE Append(rs, rec)

\* branchParents[branch] = parent
PutParent(bp, branch, parent) ==
  {e \in bp : e[1] /= branch} \cup {<<branch, parent>>}

\* getStackForBranch matching the base of a stack as well
getStackForBranch_MatchesBase(file, r, branch) ==
  IF r = NoRepo THEN <<>>
  ELSE LET rs == file[r]
           hits == {i \in 1..Len(rs) : \/ Includes(rs[i].branches, branch)
                                       \/ rs[i].baseBranch = branch}
       IN IF hits = {} THEN <<>>
          ELSE <<rs[CHOOSE i \in hits : \A j \in hits : i <= j]>>

\* getStackForBranch: the first stack whose branches includes the branch
getStackForBranch(file, r, branch) ==
  IF r = NoRepo THEN <<>>
  ELSE LET rs == file[r]
           hits == {i \in 1..Len(rs) : Includes(rs[i].branches, branch)}
       IN IF hits = {} THEN <<>>
          ELSE <<rs[CHOOSE i \in hits : \A j \in hits : i <= j]>>

\* createStack: overwrites silently
createStackFile(file, r, stackName, baseBranch) ==
  [file EXCEPT ![r] = PutStack(@, NewStack(stackName, baseBranch))]

\* AlreadyMember with the guard left out
AlreadyMember_Never(rec, branch) == FALSE

\* the branches.includes(branch) guard of addBranchToStack
AlreadyMember(rec, branch) == Includes(rec.branches, branch)

\* addBranchFile taking the parent of the new branch as the stack's base
addBranchFile_MovesBase(file, r, stackName, branch, parentBranch) ==
  LET rs  == file[r]
      rec == rs[StackIndex(rs, stackName)]
  IN IF AlreadyMember(rec, branch) THEN file
     ELSE [file EXCEPT ![r] = PutStack(rs,
            [rec EXCEPT !.branches = Append(@, branch),
                        !.hasParents = TRUE,
                        !.baseBranch =
                           IF parentBranch /= Null THEN parentBranch ELSE @,
                        !.branchParents =
                           IF parentBranch /= Null
                             THEN PutParent(@, branch, parentBranch) ELSE @])]

\* addBranchToStack on an existing stack of repository r
addBranchFile(file, r, stackName, branch, parentBranch) ==
  LET rs  == file[r]
      rec == rs[StackIndex(rs, stackName)]
  IN IF AlreadyMember(rec, branch) THEN file
     ELSE [file EXCEPT ![r] = PutStack(rs,
            [rec EXCEPT !.branches = Append(@, branch),
                        !.hasParents = TRUE,
                        !.branchParents =
                           IF parentBranch /= Null
                             THEN PutParent(@, branch, parentBranch) ELSE @])]

\* RemoveFromRecord keeping a record whose last member went
RemoveFromRecord_KeepsEmpty(rec, branch) ==
  LET index == IndexOf(rec.branches, branch)
  IN IF index > 0 THEN <<[rec EXCEPT !.branches = RemoveAt(@, index)]>>
     ELSE <<rec>>

\* one stack of removeBranchFromStack's loop: <<>> when the record is deleted
RemoveFromRecord(rec, branch) ==
  LET index == IndexOf(rec.branches, branch)
  IN IF index > 0
       THEN IF Len(rec.branches) = 1 THEN <<>>
            ELSE <<[rec EXCEPT !.branches = RemoveAt(@, index)]>>
       ELSE <<rec>>

RECURSIVE RemoveFromStacks(_, _)
RemoveFromStacks(rs, branch) ==
  IF rs = <<>> THEN <<>>
  ELSE RemoveFromRecord(Head(rs), branch) \o RemoveFromStacks(Tail(rs), branch)

\* removeBranchFile taking the branch out of the stacks of every repository
removeBranchFile_EveryRepo(file, r, branch) ==
  IF r = NoRepo THEN file
  ELSE [q \in Repos |-> RemoveFromStacks(file[q], branch)]

\* removeBranchFromStack
removeBranchFile(file, r, branch) ==
  IF r = NoRepo THEN file
  ELSE [file EXCEPT ![r] = RemoveFromStacks(@, branch)]

\* parentInStack reading the position only
parentInStack_PositionOnly(stack, branch) ==
  LET index == IndexOf(stack.branches, branch)
  IN IF index <= 1 THEN stack.baseBranch ELSE stack.branches[index - 1]

\* getParentBranch once the owning stack is known: the explicit entry,
\* else the base for the first member, else the member before it
parentInStack(stack, branch) ==
  IF stack.hasParents /\ \E e \in stack.branchParents : e[1] = branch
    THEN (CHOOSE e \in stack.branchParents : e[1] = branch)[2]
    ELSE LET index == IndexOf(stack.branches, branch)
         IN IF index <= 1 THEN stack.baseBranch
            ELSE stack.branches[index - 1]

\* getParentBranch: 'main' when no stack lists the branch
getParentBranch(file, r, branch) ==
  LET stack == getStackForBranch(file, r, branch)
  IN IF stack = <<>> THEN "main" ELSE parentInStack(stack[1], branch)

\* getChildBranches: [] when no stack lists the branch; with a branchParents
\* map (even an empty one) the keys whose value is the branch; without one
\* the element after the branch in [baseBranch, ...branches].  The order of
\* the returned array is left out.
getChildBranches(file, r, branch) ==
  LET found == getStackForBranch(file, r, branch)
  IN IF found = <<>> THEN {}
     ELSE LET stack == found[1]
          IN IF stack.hasParents
               THEN {e[1] : e \in {x \in stack.branchParents : x[2] = branch}}
               ELSE LET allBranches  == <<stack.baseBranch>> \o stack.branches
                        currentIndex == IndexOf(allBranches, branch)
                    IN IF currentIndex >= 1 /\ currentIndex < Len(allBranches)
                         THEN {allBranches[currentIndex + 1]}
                         ELSE {}

\* the children pushed for parent x by the sequential loop of buildBranchTree
RECURSIVE SequentialChildren(_, _)
SequentialChildren(allBranches, x) ==
  IF Len(allBranches) < 2 THEN <<>>
  ELSE (IF allBranches[1] = x THEN <<allBranches[2]>> ELSE <<>>)
         \o SequentialChildren(Tail(allBranches), x)

\* stack.branchParents[branch] || stack.baseBranch
TreeParent(stack, branch) ==
  IF \E e \in stack.branchParents : e[1] = branch
    THEN (CHOOSE e \in stack.branchParents : e[1] = branch)[2]
    ELSE stack.baseBranch

\* buildBranchTree: a key the code leaves undefined maps to the empty list
\* (displayBranchNode reads childrenMap[child] || [])
buildBranchTree(stack) ==
  LET childrenMap ==
        [x \in Branches \cup StoreBranches |->
           IF stack.hasParents
             THEN SelectSeq(stack.branches, LAMBDA b : TreeParent(stack, b) = x)
             ELSE SequentialChildren(<<stack.baseBranch>> \o stack.branches, x)]
  IN [name |-> stack.baseBranch,
      children |-> childrenMap[stack.baseBranch],
      childrenMap |-> childrenMap]

\* displayBranchNode: the names printed, one per line, children after their
\* parent; the recursion is cut below depth fuel
RECURSIVE displayBranchNode(_, _, _)
RECURSIVE displayChildren(_, _, _)
displayBranchNode(childrenMap, name, fuel) ==
  <<name>> \o (IF fuel = 0 THEN <<>>
               ELSE displayChildren(childrenMap, childrenMap[name], fuel - 1))

displayChildren(childrenMap, children, fuel) ==
  IF children = <<>> THEN <<>>
  ELSE displayBranchNode(childrenMap, Head(children), fuel)
         \o displayChildren(childrenMap, Tail(children), fuel)

\* displayStackBranches: a tree over n branches is printed whole at depth n
displayStackBranches(stack) ==
  LET tree == buildBranchTree(stack)
  IN displayBranchNode(tree.childrenMap, tree.name, Len(stack.branches) + 1)

\* the recursion of displayBranchNode does not end
Diverges(stack) ==
  LET tree == buildBranchTree(stack)
  IN displayBranchNode(tree.childrenMap, tree.name, Len(stack.branches) + 2)
       /= displayStackBranches(stack)

\* ------------------------------------------------------------------------
\* Cascade state slot (src/commands/modify.js: git config gap.modify.state)
\* ------------------------------------------------------------------------

\* IsClean with the status check left out
IsClean_Unchecked == TRUE

\* status.isClean(): conflicted files of a stopped rebase count as changes
IsClean == ~dirty /\ rebasing = None

\* Downstream slicing at branchIndex instead of branchIndex + 1
Downstream_FromSelf(stack, branch) ==
  SliceFrom(stack.branches, IndexOf(stack.branches, branch))

\* stack.branches.slice(branchIndex + 1)
Downstream(stack, branch) == SliceFrom(stack.branches, IndexOf(stack.branches, branch) + 1)

\* the state the modify action saves before the loop
InitialState(stack, currentBranch) ==
  [stack |-> stack.name, currentBranch |-> currentBranch,
   downstreamBranches |-> Downstream(stack, currentBranch), processed |-> <<>>]

\* updateModifyState({processed, currentBranch}); Null stands for an absent key
updateModifyState(st, processed, currentBranch) ==
  IF st = <<>> THEN st
  ELSE <<[st[1] EXCEPT
            !.processed = IF processed /= Null THEN Append(@, processed) ELSE @,
            !.currentBranch = IF currentBranch /= Null THEN currentBranch ELSE @]>>

\* remainingBranches of continueModify
RECURSIVE FilterRemaining(_, _, _)
FilterRemaining(ds, processed, currentBranch) ==
  IF ds = <<>> THEN <<>>
  ELSE (IF ~Includes(processed, Head(ds)) /\ Head(ds) /= currentBranch
          THEN <<Head(ds)>> ELSE <<>>)
       \o FilterRemaining(Tail(ds), processed, currentBranch)

RemainingBranches(st) ==
  FilterRemaining(st.downstreamBranches, st.processed, st.currentBranch)

\* every invocation leaves the loop locals behind
ResetLocals ==
  /\ pc' = "idle"
  /\ mode' = Null
  /\ localCurrent' = Null
  /\ previousBranch' = Null
  /\ todo' = <<>>

\* process.exit(1) or a thrown error caught by the action's catch
Exit1(what) ==
  /\ outcome' = what
  /\ exitCode' = 1

Exit0(what) ==
  /\ outcome' = what
  /\ exitCode' = 0

\* ------------------------------------------------------------------------
\* gap modify
\* ------------------------------------------------------------------------

\* ensureCleanWorkingTree throws
StartDirty ==
  /\ pc = "idle"
  /\ ~IsClean
  /\ op' = "modify"
  /\ calls' = <<>>
  /\ Exit1("DirtyTree")
  /\ UNCHANGED <<fixedVars, gitVars, cascadeVars>>

\* getStackForBranch(currentBranch) is null
StartNotStaged ==
  /\ pc = "idle"
  /\ IsClean
  /\ getStackForBranch(stacksFile, repo, head) = <<>>
  /\ op' = "modify"
  /\ calls' = <<>>
  /\ Exit1("NotStaged")
  /\ UNCHANGED <<fixedVars, gitVars, cascadeVars>>

\* downstreamBranches.length === 0
StartNothingToDo ==
  /\ pc = "idle"
  /\ IsClean
  /\ getStackForBranch(stacksFile, repo, head) /= <<>>
  /\ Downstream(getStackForBranch(stacksFile, repo, head)[1], head) = <<>>
  /\ op' = "modify"
  /\ calls' = <<>>
  /\ Exit0("NothingToDo")
  /\ UNCHANGED <<fixedVars, gitVars, cascadeVars>>

\* the confirmation prompt is declined
StartCancelled ==
  /\ pc = "idle"
  /\ IsClean
  /\ getStackForBranch(stacksFile, repo, head) /= <<>>
  /\ Downstream(getStackForBranch(stacksFile, repo, head)[1], head) /= <<>>
  /\ op' = "modify"
  /\ calls' = <<>>
  /\ Exit0("Cancelled")
  /\ UNCHANGED <<fixedVars, gitVars, cascadeVars>>

\* saveModifyState and entry into the loop
StartBegin ==
  /\ pc = "idle"
  /\ IsClean
  /\ getStackForBranch(stacksFile, repo, head) /= <<>>
  /\ LET stack == getStackForBranch(stacksFile, repo, head)[1]
     IN /\ Downstream(stack, head) /= <<>>
        /\ modifyState' = <<InitialState(stack, head)>>
        /\ todo' = Downstream(stack, head)
  /\ pc' = "loop"
  /\ mode' = "modify"
  /\ localCurrent' = head
  /\ previousBranch' = head
  /\ origin' = head
  /\ doneSet' = {}
  /\ failed' = None
  /\ op' = "modify"
  /\ calls' = <<>>
  /\ outcome' = "Running"
  /\ exitCode' = 0
  /\ UNCHANGED <<fixedVars, gitVars, discarded>>

\* StepCheckoutFails swallowing the error and moving on to the next branch
StepCheckoutFails_Skips ==
  /\ pc = "loop"
  /\ todo /= <<>>
  /\ calls' = Append(calls, <<"checkout", Head(todo)>>)
  /\ failed' = Head(todo)
  /\ todo' = Tail(todo)
  /\ UNCHANGED <<fixedVars, gitVars, modifyState, pc, mode, localCurrent, previousBranch,
                 op, outcome, exitCode, origin, doneSet, discarded>>

\* checkoutBranch(branch) throws: caught by the action's catch
StepCheckoutFails ==
  /\ pc = "loop"
  /\ todo /= <<>>
  /\ calls' = Append(calls, <<"checkout", Head(todo)>>)
  /\ failed' = Head(todo)
  /\ Exit1("Error")
  /\ ResetLocals
  /\ UNCHANGED <<fixedVars, gitVars, modifyState, op, origin, doneSet, discarded>>

\* what a successful step persists
RecordProcessed(st, branch) == updateModifyState(st, branch, Null)

\* rebaseBranch returned true
StepRebased ==
  /\ pc = "loop"
  /\ todo /= <<>>
  /\ LET branch == Head(todo)
     IN /\ calls' = calls \o <<<<"checkout", branch>>, <<"rebase", previousBranch, branch>>>>
        /\ head' = branch
        /\ modifyState' = RecordProcessed(modifyState, branch)
        /\ previousBranch' = branch
        /\ doneSet' = doneSet \cup {branch}
  /\ todo' = Tail(todo)
  /\ UNCHANGED <<fixedVars, gitBranches, dirty, rebasing, pc, mode, localCurrent,
                 op, outcome, exitCode, origin, failed, discarded>>

\* RecordPause that does not move currentBranch to the paused branch
RecordPause_NoPausePoint(st, branch) == st

\* what a failed rebase persists: the pause point
RecordPause(st, branch) == updateModifyState(st, Null, branch)

\* rebaseBranch returned false because git stopped on a conflict
StepConflict ==
  /\ pc = "loop"
  /\ todo /= <<>>
  /\ LET branch == Head(todo)
     IN /\ calls' = calls \o <<<<"checkout", branch>>, <<"rebase", previousBranch, branch>>>>
        /\ head' = Detached
        /\ rebasing' = branch
        /\ modifyState' = RecordPause(modifyState, branch)
  /\ Exit1("Conflict")
  /\ ResetLocals
  /\ UNCHANGED <<fixedVars, gitBranches, dirty, op, origin, doneSet, failed, discarded>>

\* rebaseBranch returned false for another reason: git refused to start
StepRebaseFails ==
  /\ pc = "loop"
  /\ todo /= <<>>
  /\ LET branch == Head(todo)
     IN /\ calls' = calls \o <<<<"checkout", branch>>, <<"rebase", previousBranch, branch>>>>
        /\ head' = branch
        /\ modifyState' = RecordPause(modifyState, branch)
        /\ failed' = branch
  /\ Exit1("Conflict")
  /\ ResetLocals
  /\ UNCHANGED <<fixedVars, gitBranches, dirty, rebasing, op, origin, doneSet, discarded>>

\* after the loop of the modify action: checkoutBranch(currentBranch), clearModifyState
CompleteModify ==
  /\ pc = "loop"
  /\ mode = "modify"
  /\ todo = <<>>
  /\ calls' = Append(calls, <<"checkout", localCurrent>>)
  /\ head' = localCurrent
  /\ discarded' = modifyState
  /\ modifyState' = <<>>
  /\ Exit0("Completed")
  /\ ResetLocals
  /\ UNCHANGED <<fixedVars, gitBranches, dirty, rebasing, op, origin, doneSet, failed>>

\* the final checkoutBranch(currentBranch) throws
CompleteCheckoutFails ==
  /\ pc = "loop"
  /\ mode = "modify"
  /\ todo = <<>>
  /\ calls' = Append(calls, <<"checkout", localCurrent>>)
  /\ failed' = localCurrent
  /\ Exit1("Error")
  /\ ResetLocals
  /\ UNCHANGED <<fixedVars, gitVars, modifyState, op, origin, doneSet, discarded>>

\* after the loop of continueModify: clearModifyState only
CompleteContinue ==
  /\ pc = "loop"
  /\ mode = "continue"
  /\ todo = <<>>
  /\ discarded' = modifyState
  /\ modifyState' = <<>>
  /\ Exit0("Completed")
  /\ ResetLocals
  /\ UNCHANGED <<fixedVars, gitVars, calls, op, origin, doneSet, failed>>

\* ------------------------------------------------------------------------
\* gap modify --continue
\* ------------------------------------------------------------------------

\* getModifyState() is null
ContinueNoState ==
  /\ pc = "idle"
  /\ modifyState = <<>>
  /\ op' = "continue"
  /\ calls' = <<>>
  /\ Exit1("NoCascadeInProgress")
  /\ UNCHANGED <<fixedVars, gitVars, cascadeVars>>

\* ContinueFails that clears the state before exiting
ContinueFails_DropsState ==
  /\ pc = "idle"
  /\ modifyState /= <<>>
  /\ op' = "continue"
  /\ calls' = <<<<"rebase", "--continue">>>>
  /\ Exit1("ContinueFailed")
  /\ discarded' = modifyState
  /\ modifyState' = <<>>
  /\ UNCHANGED <<fixedVars, gitVars, pc, mode, localCurrent, previousBranch, todo,
                 origin, doneSet, failed>>

\* git rebase --continue throws: nothing to continue, or conflicts remain
ContinueFails ==
  /\ pc = "idle"
  /\ modifyState /= <<>>
  /\ op' = "continue"
  /\ calls' = <<<<"rebase", "--continue">>>>
  /\ Exit1("ContinueFailed")
  /\ UNCHANGED <<fixedVars, gitVars, cascadeVars>>

\* git rebase --continue succeeded and remainingBranches is empty
ContinueDone ==
  /\ pc = "idle"
  /\ modifyState /= <<>>
  /\ rebasing /= None
  /\ RemainingBranches(modifyState[1]) = <<>>
  /\ op' = "continue"
  /\ calls' = <<<<"rebase", "--continue">>>>
  /\ head' = rebasing
  /\ rebasing' = None
  /\ doneSet' = doneSet \cup {rebasing}
  /\ discarded' = modifyState
  /\ modifyState' = <<>>
  /\ Exit0("Completed")
  /\ UNCHANGED <<fixedVars, gitBranches, dirty, pc, mode, localCurrent,
                 previousBranch, todo, origin, failed>>

\* git rebase --continue succeeded and the loop resumes
ContinueResume ==
  /\ pc = "idle"
  /\ modifyState /= <<>>
  /\ rebasing /= None
  /\ RemainingBranches(modifyState[1]) /= <<>>
  /\ op' = "continue"
  /\ calls' = <<<<"rebase", "--continue">>>>
  /\ head' = rebasing
  /\ rebasing' = None
  /\ doneSet' = doneSet \cup {rebasing}
  /\ pc' = "loop"
  /\ mode' = "continue"
  /\ localCurrent' = Null
  /\ previousBranch' = modifyState[1].currentBranch
  /\ todo' = RemainingBranches(modifyState[1])
  /\ outcome' = "Running"
  /\ exitCode' = 0
  /\ UNCHANGED <<fixedVars, gitBranches, dirty, modifyState, origin, failed, discarded>>

\* ------------------------------------------------------------------------
\* gap modify --abort
\* ------------------------------------------------------------------------

AbortNoState ==
  /\ pc = "idle"
  /\ modifyState = <<>>
  /\ op' = "abort"
  /\ calls' = <<>>
  /\ Exit1("NoCascadeInProgress")
  /\ UNCHANGED <<fixedVars, gitVars, cascadeVars>>

\* git rebase --abort throws (always so when no rebase is in progress)
AbortFails ==
  /\ pc = "idle"
  /\ modifyState /= <<>>
  /\ op' = "abort"
  /\ calls' = <<<<"rebase", "--abort">>>>
  /\ Exit1("AbortFailed")
  /\ UNCHANGED <<fixedVars, gitVars, cascadeVars>>

\* git rebase --abort succeeded, then clearModifyState
AbortDone ==
  /\ pc = "idle"
  /\ modifyState /= <<>>
  /\ rebasing /= None
  /\ op' = "abort"
  /\ calls' = <<<<"rebase", "--abort">>>>
  /\ head' = rebasing
  /\ rebasing' = None
  /\ discarded' = modifyState
  /\ modifyState' = <<>>
  /\ Exit0("Aborted")
  /\ UNCHANGED <<fixedVars, gitBranches, dirty, pc, mode, localCurrent,
                 previousBranch, todo, origin, doneSet, failed>>

\* ------------------------------------------------------------------------
\* The cascade specification: a repository whose stack was built by the
\* create command, then any sequence of modify invocations
\* ------------------------------------------------------------------------

\* main, f1 .. fn added to stack s1 of r1 the way the create command adds them:
\* as a chain (each on top of the previous) or all forked from main
RECURSIVE BuiltFile(_, _)
BuiltFile(n, forked) ==
  IF n = 0
    THEN addBranchFile(createStackFile(EmptyFile, "r1", "s1", "main"),
                       "r1", "s1", "main", Null)
    ELSE addBranchFile(BuiltFile(n - 1, forked), "r1", "s1", FeatureNames[n],
                       IF forked \/ n = 1 THEN "main" ELSE FeatureNames[n - 1])

CascadeFiles == {EmptyFile} \cup {BuiltFile(n, f) : n \in 0..MaxFeatures, f \in BOOLEAN}

InitIdle ==
  /\ rebasing = None
  /\ modifyState = <<>>
  /\ pc = "idle"
  /\ mode = Null
  /\ localCurrent = Null
  /\ previousBranch = Null
  /\ todo = <<>>
  /\ calls = <<>>
  /\ op = "none"
  /\ outcome = "none"
  /\ exitCode = 0
  /\ origin = Null
  /\ doneSet = {}
  /\ failed = None
  /\ discarded = <<>>
  /\ invocations = 0
  /\ args = <<>>
  /\ result = <<>>

Init ==
  /\ stacksFile \in CascadeFiles
  /\ repo \in {"r1", NoRepo}
  /\ gitBranches = Branches
  /\ head \in Branches
  /\ dirty \in BOOLEAN
  /\ md = <<>>
  /\ io = <<>>
  /\ sy = <<>>
  /\ InitIdle

Next ==
  \/ StartDirty
  \/ StartNotStaged
  \/ StartNothingToDo
  \/ StartCancelled
  \/ StartBegin
  \/ StepCheckoutFails
  \/ StepRebased
  \/ StepConflict
  \/ StepRebaseFails
  \/ CompleteModify
  \/ CompleteCheckoutFails
  \/ CompleteContinue
  \/ ContinueNoState
  \/ ContinueFails
  \/ ContinueDone
  \/ ContinueResume
  \/ AbortNoState
  \/ AbortFails
  \/ AbortDone

Spec == Init /\ [][Next]_vars

\* ------------------------------------------------------------------------
\* Claims about the cascade
\* ------------------------------------------------------------------------

\* a step of the loop that issued git rebase <onto> <branch>
RebaseIssued(onto, branch) ==
  /\ pc = "loop"
  /\ Len(calls') = Len(calls) + 2
  /\ calls'[Len(calls')] = <<"rebase", onto, branch>>

\* C1: every rebase of a cascade takes the first downstream branch that is not
\* yet up to date, all earlier downstream branches being up to date, and
\* rebases it onto the branch just before it (the first onto the start branch)
C1_RebasedInStackOrder ==
  [][\A onto, branch \in Branches :
       RebaseIssued(onto, branch) =>
         LET ds == modifyState[1].downstreamBranches
             k  == IndexOf(ds, branch)
         IN /\ k > 0
            /\ branch \notin doneSet
            /\ \A j \in 1..(k - 1) : ds[j] \in doneSet
            /\ onto = IF k = 1 THEN origin ELSE ds[k - 1]]_vars

\* C2: while a rebase is stopped on a conflict at the k-th downstream branch,
\* the persisted state names that branch as the pause point and its processed
\* list is the first k-1 downstream branches
C2_ConflictPersistsPrefix ==
  rebasing /= None =>
    /\ modifyState /= <<>>
    /\ LET st == modifyState[1]
           k  == IndexOf(st.downstreamBranches, rebasing)
       IN /\ st.currentBranch = rebasing
          /\ k > 0
          /\ st.processed = SubSeq(st.downstreamBranches, 1, k - 1)

\* C3: a Continue that runs to completion discards a state whose processed
\* list is the whole downstreamBranches list
C3_ContinueProcessesAll ==
  (op = "continue" /\ outcome = "Completed") =>
    discarded[1].processed = discarded[1].downstreamBranches

\* C5: a completed cascade has the start branch checked out and no state left
C5_CompletedBackOnOrigin ==
  outcome = "Completed" => (head = origin /\ modifyState = <<>>)

\* C4: Abort with a persisted state calls git rebase --abort; on success the
\* state is gone, the paused branch is checked out and no rebase is in
\* progress; on failure the state is untouched and the exit code is 1; Abort
\* without a persisted state calls no rebase primitive and changes nothing
C4_AbortContract ==
  [][(pc = "idle" /\ op' = "abort") =>
       IF modifyState = <<>>
         THEN /\ calls' = <<>>
              /\ exitCode' = 1
              /\ UNCHANGED <<modifyState, head, rebasing, stacksFile, gitBranches, dirty>>
         ELSE /\ calls' = <<<<"rebase", "--abort">>>>
              /\ \/ /\ outcome' = "Aborted"
                    /\ modifyState' = <<>>
                    /\ head' = modifyState[1].currentBranch
                    /\ rebasing' = None
                 \/ /\ outcome' = "AbortFailed"
                    /\ exitCode' = 1
                    /\ UNCHANGED <<modifyState, head, rebasing>>]_vars

C4_Witness ==
  /\ op = "abort"
  /\ outcome = "Aborted"
  /\ modifyState = <<>>
  /\ head = discarded[1].currentBranch
  /\ discarded[1].processed /= <<>>

\* C6: a Continue without a persisted state reports NoCascadeInProgress, and a
\* Continue that fails (no state, or git rebase --continue refused) exits
\* with 1, rebases no branch and leaves the persisted state as it was
C6_FailedContinueChangesNothing ==
  [][(pc = "idle" /\ op' = "continue") =>
       /\ modifyState = <<>> => outcome' = "NoCascadeInProgress"
       /\ outcome' \in {"NoCascadeInProgress", "ContinueFailed"} =>
            /\ exitCode' = 1
            /\ pc' = "idle"
            /\ \A i \in 1..Len(calls') : calls'[i] \in {<<"rebase", "--continue">>}
            /\ UNCHANGED <<modifyState, head, rebasing, doneSet>>]_vars

C6_Witness ==
  /\ op = "continue"
  /\ outcome = "ContinueFailed"
  /\ rebasing /= None
  /\ modifyState /= <<>>
  /\ modifyState[1].currentBranch = rebasing

\* the checked-out branch is the last entry of the branches list of the first
\* stack of the current repository that contains it
HeadIsLastOfItsStack ==
  /\ repo /= NoRepo
  /\ \E i \in 1..Len(stacksFile[repo]) :
       LET bs == stacksFile[repo][i].branches
       IN /\ head \in Range(bs)
          /\ bs[Len(bs)] = head
          /\ \A j \in 1..(i - 1) : head \notin Range(stacksFile[repo][j].branches)

\* C7: modify started with a clean tree on the last branch of its stack
\* reports nothing to do, exits with 0, writes no cascade state, issues no
\* checkout or rebase and returns to idle
C7_NoDownstreamIsNoOp ==
  [][(pc = "idle" /\ op' = "modify" /\ ~dirty /\ rebasing = None /\ HeadIsLastOfItsStack) =>
       /\ outcome' = "NothingToDo"
       /\ exitCode' = 0
       /\ calls' = <<>>
       /\ pc' = "idle"
       /\ UNCHANGED <<modifyState, head, rebasing>>]_vars

C7_Witness ==
  /\ op = "modify"
  /\ outcome = "NothingToDo"
  /\ modifyState = <<>>
  /\ HeadIsLastOfItsStack
  /\ Len(getStackForBranch(stacksFile, repo, head)[1].branches) > 1

\* no branches list of the current repository contains the checked-out branch
HeadInNoStack ==
  \/ repo = NoRepo
  \/ \A i \in 1..Len(stacksFile[repo]) : head \notin Range(stacksFile[repo][i].branches)

\* C8: modify started on a dirty tree fails with DirtyTree, and started with a
\* clean tree on a branch of no stack fails with NotStaged; either way the exit
\* code is 1, no state is written and nothing is checked out or rebased
C8_StartPreconditions ==
  [][(pc = "idle" /\ op' = "modify") =>
       /\ (dirty \/ rebasing /= None) => outcome' = "DirtyTree"
       /\ (~dirty /\ rebasing = None /\ HeadInNoStack) => outcome' = "NotStaged"
       /\ (dirty \/ rebasing /= None \/ HeadInNoStack) =>
            /\ exitCode' = 1
            /\ calls' = <<>>
            /\ pc' = "idle"
            /\ UNCHANGED <<modifyState, head, rebasing>>]_vars

C8_Witness ==
  /\ op = "modify"
  /\ outcome = "DirtyTree"
  /\ exitCode = 1
  /\ rebasing /= None
  /\ modifyState /= <<>>

\* C9: a step that fails without a conflict ends the invocation with exit
\* code 1, leaves the cascade state persisted with processed as it was and
\* without the failing branch; afterwards the persisted state changes only
\* when a new cascade is started
C9_NonConflictFailurePauses ==
  [][/\ (failed' /= None /\ failed' /= failed) =>
          /\ exitCode' = 1
          /\ pc' = "idle"
          /\ rebasing' = None
          /\ modifyState /= <<>>
          /\ modifyState' /= <<>>
          /\ modifyState'[1].processed = modifyState[1].processed
          /\ ~Includes(modifyState'[1].processed, failed')
     /\ (failed /= None /\ modifyState' /= modifyState) =>
          (op' = "modify" /\ pc' = "loop" /\ failed' = None)]_vars

C9_Witness ==
  /\ failed /= None
  /\ pc = "idle"
  /\ exitCode = 1
  /\ modifyState /= <<>>
  /\ modifyState[1].processed /= <<>>
  /\ failed \in Range(modifyState[1].downstreamBranches)

\* ------------------------------------------------------------------------
\* Stack operations and the create command (src/commands/create.js)
\* ------------------------------------------------------------------------

\* a store operation leaves the cascade and its git calls alone
StoreFrame ==
  /\ invocations < MaxOps
  /\ invocations' = invocations + 1
  /\ calls' = <<>>
  /\ result' = <<>>
  /\ UNCHANGED <<repo, dirty, rebasing, cascadeVars, otherVars>>

\* createStack(stackName, baseBranch)
CreateStackOp(stackName, baseBranch) ==
  /\ pc = "idle"
  /\ op' = "createStack"
  /\ args' = <<stackName, baseBranch>>
  /\ IF repo = NoRepo
       THEN /\ Exit1("NotInRepo")
            /\ UNCHANGED stacksFile
       ELSE /\ Exit0("ok")
            /\ stacksFile' = createStackFile(stacksFile, repo, stackName, baseBranch)
  /\ StoreFrame
  /\ UNCHANGED <<gitBranches, head>>

\* AddBranchOp returning quietly when the stack is missing
AddBranchOp_IgnoresMissing(stackName, branch, parentBranch) ==
  /\ pc = "idle"
  /\ op' = "addBranch"
  /\ args' = <<stackName, branch, parentBranch>>
  /\ IF repo = NoRepo
       THEN /\ Exit1("NotInRepo")
            /\ UNCHANGED stacksFile
       ELSE /\ Exit0("ok")
            /\ stacksFile' =
                 IF HasStack(stacksFile[repo], stackName)
                   THEN addBranchFile(stacksFile, repo, stackName, branch, parentBranch)
                   ELSE stacksFile
  /\ StoreFrame
  /\ UNCHANGED <<gitBranches, head>>

\* addBranchToStack(stackName, branch, parentBranch)
AddBranchOp(stackName, branch, parentBranch) ==
  /\ pc = "idle"
  /\ op' = "addBranch"
  /\ args' = <<stackName, branch, parentBranch>>
  /\ IF repo = NoRepo
       THEN /\ Exit1("NotInRepo")
            /\ UNCHANGED stacksFile
       ELSE IF ~HasStack(stacksFile[repo], stackName)
         THEN /\ Exit1("NotFound")
              /\ UNCHANGED stacksFile
         ELSE /\ Exit0("ok")
              /\ stacksFile' = addBranchFile(stacksFile, repo, stackName, branch, parentBranch)
  /\ StoreFrame
  /\ UNCHANGED <<gitBranches, head>>

\* what removeBranchFromStack logs: the skip without a repository, the
\* deletion of an emptied stack, the removal from a stack, or neither
RemoveLog(file, r, branch) ==
  IF r = NoRepo THEN "Skipped"
  ELSE IF \E i \in 1..Len(file[r]) : file[r][i].branches = <<branch>>
    THEN "DeletedStack"
  ELSE IF \E i \in 1..Len(file[r]) : Includes(file[r][i].branches, branch)
    THEN "Removed"
  ELSE "ok"

\* removeBranchFromStack(branch)
RemoveBranchOp(branch) ==
  /\ pc = "idle"
  /\ op' = "removeBranch"
  /\ args' = <<branch>>
  /\ Exit0(RemoveLog(stacksFile, repo, branch))
  /\ stacksFile' = removeBranchFile(stacksFile, repo, branch)
  /\ StoreFrame
  /\ UNCHANGED <<gitBranches, head>>

\* the stacks file after the "No stack found" block of the create command
FileWithNewStack(file, r, stackName, currentBranch) ==
  addBranchFile(createStackFile(file, r, stackName, currentBranch),
                r, stackName, currentBranch, Null)

\* gap create <branchName>, the prompt for a stack name answered stackName
CreateCmd(branchName, stackName) ==
  /\ pc = "idle"
  /\ op' = "create"
  /\ args' = <<branchName, stackName>>
  /\ IF ~IsClean
       THEN /\ Exit1("DirtyTree")
            /\ UNCHANGED <<stacksFile, gitBranches, head>>
       ELSE IF getStackForBranch(stacksFile, repo, head) = <<>> /\ repo = NoRepo
         THEN /\ Exit1("NotInRepo")
              /\ UNCHANGED <<stacksFile, gitBranches, head>>
         ELSE LET file1 == IF getStackForBranch(stacksFile, repo, head) = <<>>
                             THEN FileWithNewStack(stacksFile, repo, stackName, head)
                             ELSE stacksFile
                  currentStack == getStackForBranch(file1, repo, head)
              IN IF branchName \in gitBranches
                   THEN /\ Exit1("BranchExists")
                        /\ stacksFile' = file1
                        /\ UNCHANGED <<gitBranches, head>>
                   ELSE /\ Exit0("Created")
                        /\ gitBranches' = gitBranches \cup {branchName}
                        /\ head' = branchName
                        /\ stacksFile' =
                             IF currentStack /= <<>>
                               THEN addBranchFile(file1, repo, currentStack[1].name,
                                                  branchName, head)
                               ELSE file1
  /\ StoreFrame

\* parents a caller passes to addBranchToStack: none, or a branch of the stack
ParentInputs(stackName) ==
  {Null} \cup
  (IF repo /= NoRepo /\ HasStack(stacksFile[repo], stackName)
     THEN LET rec == stacksFile[repo][StackIndex(stacksFile[repo], stackName)]
          IN {rec.baseBranch} \cup Range(rec.branches)
     ELSE {})

InitStore ==
  /\ stacksFile = EmptyFile
  /\ repo \in {"r1", NoRepo}
  /\ gitBranches = {"main"}
  /\ head = "main"
  /\ dirty \in BOOLEAN
  /\ md = <<>>
  /\ io = <<>>
  /\ sy = <<>>
  /\ InitIdle

NextStore ==
  \/ \E n \in StackNames, b \in StoreBranches : CreateStackOp(n, b)
  \/ \E n \in StackNames, b \in StoreBranches : \E p \in ParentInputs(n) : AddBranchOp(n, b, p)
  \/ \E b \in StoreBranches : RemoveBranchOp(b)
  \/ \E b \in StoreFeatures, n \in StackNames : CreateCmd(b, n)

SpecStore == InitStore /\ [][NextStore]_vars

\* C10: every stack record's branches list is free of duplicates and does not
\* contain the record's own baseBranch
C10_BranchesUniqueWithoutBase ==
  \A r \in Repos : \A i \in 1..Len(stacksFile[r]) :
    /\ NoDuplicates(stacksFile[r][i].branches)
    /\ stacksFile[r][i].baseBranch \notin Range(stacksFile[r][i].branches)

\* the stack operations alone, without the create command
NextOps ==
  \/ \E n \in StackNames, b \in StoreBranches : CreateStackOp(n, b)
  \/ \E n \in StackNames, b \in StoreBranches : \E p \in ParentInputs(n) : AddBranchOp(n, b, p)
  \/ \E b \in StoreBranches : RemoveBranchOp(b)

SpecOps == InitStore /\ [][NextOps]_vars

RECURSIVE ReachesBase(_, _, _)
ReachesBase(stack, b, fuel) ==
  \/ b = stack.baseBranch
  \/ /\ fuel > 0
     /\ ReachesBase(stack, parentInStack(stack, b), fuel - 1)

\* C11: in every stack record the parent of each member is the base or another
\* member, never the member itself, and following parents from a member
\* arrives at the base within as many steps as there are members
C11_ParentRelationIsTree ==
  \A r \in Repos : \A i \in 1..Len(stacksFile[r]) :
    LET stack   == stacksFile[r][i]
        members == Range(stack.branches)
    IN \A b \in members :
         /\ parentInStack(stack, b) \in {stack.baseBranch} \cup members
         /\ parentInStack(stack, b) /= b
         /\ ReachesBase(stack, b, Len(stack.branches))

\* C12: within one repository no branch is in the branches list of two stacks
C12_OneStackPerBranch ==
  \A r \in Repos : \A i, j \in 1..Len(stacksFile[r]) :
    i /= j => Range(stacksFile[r][i].branches)
                \cap Range(stacksFile[r][j].branches) = {}

\* ------------------------------------------------------------------------
\* The queries over a stored file (src/utils/stack.js getParentBranch,
\* getChildBranches; gap log)
\* ------------------------------------------------------------------------

InjectiveSeqs(S) ==
  {q \in UNION {[1..n -> S] : n \in 1..Cardinality(S)} : NoDuplicates(q)}

\* branches lists: features in any order, behind the base when the create
\* command made the stack
SampleBranches ==
  InjectiveSeqs(StoreFeatures)
    \cup {<<"main">> \o q : q \in InjectiveSeqs(StoreFeatures)}

\* branchParents maps: any entries addBranchToStack may have written, those
\* of removed branches included
SampleParents ==
  {bp \in SUBSET (StoreFeatures \X StoreBranches) :
     \A e1, e2 \in bp : e1[1] = e2[1] => e1 = e2}

\* records with a branchParents map, and records of the older layout
\* without one
SampleStacks ==
  {[name |-> StackNameList[1], baseBranch |-> "main", branches |-> bs,
    hasParents |-> TRUE, branchParents |-> bp] :
      bs \in SampleBranches, bp \in SampleParents}
  \cup
  {[name |-> StackNameList[1], baseBranch |-> "main", branches |-> bs,
    hasParents |-> FALSE, branchParents |-> {}] : bs \in SampleBranches}

OtherStack ==
  [name |-> StackNameList[2], baseBranch |-> "main", branches |-> <<"f1">>,
   hasParents |-> TRUE, branchParents |-> {<<"f1", "main">>}]

QueryFiles ==
  {EmptyFile}
    \cup {[EmptyFile EXCEPT !["r1"] = <<st>>] : st \in SampleStacks}
    \cup {[EmptyFile EXCEPT !["r1"] = <<st, OtherStack>>] : st \in SampleStacks}
    \cup {[EmptyFile EXCEPT !["r1"] = <<OtherStack, st>>] : st \in SampleStacks}

\* a query reads the file and writes nothing
QueryFrame ==
  /\ pc = "idle"
  /\ calls' = <<>>
  /\ UNCHANGED <<stacksFile, repo, invocations, gitVars, cascadeVars, otherVars>>

\* getParentBranch(branch)
ParentQuery(branch) ==
  /\ op' = "getParentBranch"
  /\ args' = <<branch>>
  /\ result' = <<getParentBranch(stacksFile, repo, branch)>>
  /\ Exit0("ok")
  /\ QueryFrame

\* getChildBranches(branch)
ChildrenQuery(branch) ==
  /\ op' = "getChildBranches"
  /\ args' = <<branch>>
  /\ result' = <<getChildBranches(stacksFile, repo, branch)>>
  /\ Exit0("ok")
  /\ QueryFrame

\* getStackForBranch(branch): null is <<>>
FindQuery(branch) ==
  /\ op' = "getStackForBranch"
  /\ args' = <<branch>>
  /\ result' = <<getStackForBranch(stacksFile, repo, branch)>>
  /\ Exit0("ok")
  /\ QueryFrame

\* gap log [--all]: the listing of every stack, or of the stack of the
\* checked-out branch
LogCmd(all) ==
  /\ op' = "log"
  /\ args' = <<all>>
  /\ IF repo = NoRepo
       THEN /\ Exit1("NotInRepo")
            /\ result' = <<>>
       ELSE LET repoStacks   == stacksFile[repo]
                currentStack == getStackForBranch(stacksFile, repo, head)
                shown        == IF all THEN repoStacks ELSE currentStack
            IN IF shown = <<>>
                 THEN /\ Exit0(IF all THEN "NoStacks" ELSE "NotStaged")
                      /\ result' = <<>>
                 ELSE /\ Exit0(IF \E i \in 1..Len(shown) : Diverges(shown[i])
                                 THEN "Diverges" ELSE "ok")
                      /\ result' = <<[i \in 1..Len(shown) |->
                                       IF shown[i].branches = <<>> THEN <<>>
                                       ELSE displayStackBranches(shown[i])]>>
  /\ QueryFrame

InitQuery ==
  /\ stacksFile \in QueryFiles
  /\ repo \in {"r1", NoRepo}
  /\ gitBranches = StoreBranches
  /\ head \in {"main", "f1"}
  /\ dirty = FALSE
  /\ md = <<>>
  /\ io = <<>>
  /\ sy = <<>>
  /\ InitIdle

NextQuery ==
  \/ \E b \in StoreBranches : ParentQuery(b)
  \/ \E b \in StoreBranches : ChildrenQuery(b)
  \/ \E b \in StoreBranches : FindQuery(b)
  \/ \E all \in BOOLEAN : LogCmd(all)

SpecQuery == InitQuery /\ [][NextQuery]_vars

\* the stacks of the current repository that list the branch
Owners(b) ==
  IF repo = NoRepo THEN {}
  ELSE {i \in 1..Len(stacksFile[repo]) :
          b \in Range(stacksFile[repo][i].branches)}

\* the first of them
Owner(b) ==
  stacksFile[repo][CHOOSE i \in Owners(b) : \A j \in Owners(b) : i <= j]

\* the element before the member b in [baseBranch, ...branches]
Predecessor(st, b) ==
  (<<st.baseBranch>> \o st.branches)
    [CHOOSE k \in 1..Len(st.branches) : st.branches[k] = b]

\* C13: getParentBranch(b) answers the branchParents entry of b in its owning
\* stack when there is one, else the element before b in
\* [baseBranch, ...branches], and 'main' when no stack lists b; the stacks file
\* is the same after the query
C13_ParentOf ==
  [][op' = "getParentBranch" =>
       /\ stacksFile' = stacksFile
       /\ LET b == args'[1]
          IN IF Owners(b) = {} THEN result' = <<"main">>
             ELSE IF \E e \in Owner(b).branchParents : e[1] = b
               THEN \E e \in Owner(b).branchParents :
                       e[1] = b /\ result' = <<e[2]>>
               ELSE result' = <<Predecessor(Owner(b), b)>>]_vars

\* a query answered from an entry that differs from the positional parent
C13_Witness ==
  /\ op = "getParentBranch"
  /\ Owners(args[1]) /= {}
  /\ \E e \in Owner(args[1]).branchParents :
       /\ e[1] = args[1]
       /\ result = <<e[2]>>
       /\ e[2] /= Predecessor(Owner(args[1]), args[1])

\* [baseBranch, ...branches]
AllBranches(st) == <<st.baseBranch>> \o st.branches

HasEntry(st, b) == \E e \in st.branchParents : e[1] = b

\* C14: in a file of one stack whose record has no branchParents entries and
\* keeps its base out of branches, getChildBranches(x) is exactly the element
\* after x in [baseBranch, ...branches], so it contains every member whose
\* parent is x, the base included
C14_PositionalChildren ==
  (op = "getChildBranches" /\ repo /= NoRepo) =>
    \A i \in 1..Len(stacksFile[repo]) :
      LET st == stacksFile[repo][i]
      IN (/\ Len(stacksFile[repo]) = 1
          /\ st.branchParents = {}
          /\ NoDuplicates(AllBranches(st)))
         => /\ result[1] = {AllBranches(st)[k + 1] :
                              k \in {n \in 1..Len(st.branches) :
                                       AllBranches(st)[n] = args[1]}}
            /\ \A b \in Range(st.branches) :
                 parentInStack(st, b) = args[1] => b \in result[1]

\* C15: in a file of one stack whose branchParents covers some members and
\* not others (every entry naming a member and giving it another node of the
\* stack as parent, without a cycle), getChildBranches(x) is the members
\* whose entry is x together with the members without an entry whose
\* predecessor in [baseBranch, ...branches] is x
C15_PerBranchFallback ==
  (op = "getChildBranches" /\ repo /= NoRepo) =>
    \A i \in 1..Len(stacksFile[repo]) :
      LET st      == stacksFile[repo][i]
          members == Range(st.branches)
      IN (/\ Len(stacksFile[repo]) = 1
          /\ st.hasParents
          /\ NoDuplicates(AllBranches(st))
          /\ \A e \in st.branchParents :
               /\ e[1] \in members
               /\ e[2] \in {st.baseBranch} \cup members
               /\ e[2] /= e[1]
          /\ \A b \in members : ReachesBase(st, b, Len(st.branches))
          /\ \E b \in members : HasEntry(st, b)
          /\ \E b \in members : ~HasEntry(st, b))
         => result[1] =
              {b \in members :
                 \/ <<b, args[1]>> \in st.branchParents
                 \/ ~HasEntry(st, b) /\ Predecessor(st, b) = args[1]}

Count(q, x) == Cardinality({k \in 1..Len(q) : q[k] = x})

\* C16: gap log --all lists every member of a stack exactly once when each
\* member of the stack has a branchParents entry (no entry naming a branch
\* as its own parent)
C16_TraversalVisitsEachOnce ==
  (op = "log" /\ args[1] = TRUE /\ result /= <<>>) =>
    \A i \in 1..Len(stacksFile[repo]) :
      LET st == stacksFile[repo][i]
      IN (/\ \A b \in Range(st.branches) : HasEntry(st, b)
          /\ \A e \in st.branchParents : e[2] /= e[1])
         => \A b \in Range(st.branches) : Count(result[1][i], b) = 1

\* C17: an addBranch that follows a successful addBranch of the same branch
\* to the same stack, with whatever parent, leaves the stacks file as it was
C17_AddBranchIdempotent ==
  [][(/\ op = "addBranch" /\ outcome = "ok"
      /\ op' = "addBranch"
      /\ args'[1] = args[1]
      /\ args'[2] = args[2])
     => stacksFile' = stacksFile]_vars

\* a repeated addBranch naming another parent than the recorded one
C17_Witness ==
  /\ op = "addBranch"
  /\ outcome = "ok"
  /\ args[3] /= Null
  /\ \E i \in 1..Len(stacksFile[repo]) :
       /\ stacksFile[repo][i].name = args[1]
       /\ args[2] \in Range(stacksFile[repo][i].branches)
       /\ \E e \in stacksFile[repo][i].branchParents :
            e[1] = args[2] /\ e[2] /= args[3]

\* C18: addBranch fails with NotInRepo without a repository and with NotFound
\* when the repository has no stack of that name, and then the stacks file is
\* as it was
C18_AddBranchErrors ==
  [][op' = "addBranch" =>
       /\ repo = NoRepo =>
            /\ outcome' = "NotInRepo" /\ exitCode' = 1
            /\ stacksFile' = stacksFile
       /\ (/\ repo /= NoRepo
           /\ \A i \in 1..Len(stacksFile[repo]) :
                stacksFile[repo][i].name /= args'[1]) =>
            /\ outcome' = "NotFound" /\ exitCode' = 1
            /\ stacksFile' = stacksFile]_vars

\* addBranch named a missing stack while another stack was there
C18_Witness ==
  /\ op = "addBranch"
  /\ outcome = "NotFound"
  /\ repo /= NoRepo
  /\ stacksFile[repo] /= <<>>

\* C19: after removeBranch(b) no stack of the repository lists b, and no stack
\* that listed b keeps b as a key of its branchParents
C19_RemoveBranchErasesBranch ==
  [][(op' = "removeBranch" /\ repo /= NoRepo) =>
       /\ \A j \in 1..Len(stacksFile'[repo]) :
            args'[1] \notin Range(stacksFile'[repo][j].branches)
       /\ \A i \in 1..Len(stacksFile[repo]) :
            args'[1] \in Range(stacksFile[repo][i].branches) =>
              \A j \in 1..Len(stacksFile'[repo]) :
                stacksFile'[repo][j].name = stacksFile[repo][i].name =>
                  ~HasEntry(stacksFile'[repo][j], args'[1])]_vars

\* C20: removeBranch of the only member of a stack deletes the stack's record;
\* removeBranch of a branch no stack lists, or without a repository, leaves
\* the stacks file as it was
C20_RemoveBranchFrame ==
  [][op' = "removeBranch" =>
       /\ (\/ repo = NoRepo
           \/ \A i \in 1..Len(stacksFile[repo]) :
                args'[1] \notin Range(stacksFile[repo][i].branches))
            => stacksFile' = stacksFile
       /\ repo /= NoRepo =>
            \A i \in 1..Len(stacksFile[repo]) :
              stacksFile[repo][i].branches = <<args'[1]>> =>
                \A j \in 1..Len(stacksFile'[repo]) :
                  stacksFile'[repo][j].name /= stacksFile[repo][i].name]_vars

\* removeBranch has just deleted a stack with its last member
C20_Witness ==
  /\ op = "removeBranch"
  /\ outcome = "DeletedStack"
  /\ \A i \in 1..Len(stacksFile[repo]) :
       args[1] \notin Range(stacksFile[repo][i].branches)

\* C21: a stack name that is in the repository's stacks before and after a
\* step has the same baseBranch before and after it
C21_BaseBranchImmutable ==
  [][\A r \in Repos :
       \A i \in 1..Len(stacksFile[r]) : \A j \in 1..Len(stacksFile'[r]) :
         stacksFile'[r][j].name = stacksFile[r][i].name
           => stacksFile'[r][j].baseBranch = stacksFile[r][i].baseBranch]_vars

\* C21 (amended): addBranch and removeBranch leave the baseBranch of every
\* stack name that is in the repository's stacks before and after the call as
\* it was; only createStack on an existing name replaces it
C21_BaseBranchKeptByAddRemove ==
  [][op' \in {"addBranch", "removeBranch"} =>
       \A r \in Repos :
         \A i \in 1..Len(stacksFile[r]) : \A j \in 1..Len(stacksFile'[r]) :
           stacksFile'[r][j].name = stacksFile[r][i].name
             => stacksFile'[r][j].baseBranch = stacksFile[r][i].baseBranch]_vars

\* addBranch has appended a second member under a parent other than the base
C21_Witness ==
  /\ op = "addBranch"
  /\ outcome = "ok"
  /\ \E i \in 1..Len(stacksFile[repo]) :
       LET st == stacksFile[repo][i]
       IN /\ st.name = args[1]
          /\ Len(st.branches) >= 2
          /\ st.branches[Len(st.branches)] = args[2]
          /\ <<args[2], args[3]>> \in st.branchParents
          /\ args[3] /= st.baseBranch

\* C22: getStackForBranch(b) answers the first stack of the repository whose
\* branches list holds b, and nothing when no branches list holds b (b being
\* a base or named in a branchParents map does not count) or when there is no
\* repository
C22_FindFirstByBranches ==
  op = "getStackForBranch" =>
    IF repo = NoRepo
         \/ \A i \in 1..Len(stacksFile[repo]) :
              args[1] \notin Range(stacksFile[repo][i].branches)
      THEN result[1] = <<>>
      ELSE \E i \in 1..Len(stacksFile[repo]) :
             /\ args[1] \in Range(stacksFile[repo][i].branches)
             /\ \A j \in 1..(i - 1) :
                  args[1] \notin Range(stacksFile[repo][j].branches)
             /\ result[1] = <<stacksFile[repo][i]>>

\* two stacks list the branch and the query answered the first
C22_Witness ==
  /\ op = "getStackForBranch"
  /\ repo /= NoRepo
  /\ Len(stacksFile[repo]) = 2
  /\ args[1] \in Range(stacksFile[repo][1].branches)
  /\ args[1] \in Range(stacksFile[repo][2].branches)
  /\ stacksFile[repo][1] /= stacksFile[repo][2]
  /\ result[1] = <<stacksFile[repo][1]>>

\* ------------------------------------------------------------------------
\* getMergedBranches (src/unnamed/part_002)
\* ------------------------------------------------------------------------

MergeNames == <<"Fix", "f1", "f2", "f3">>

Candidates == {MergeNames[i] : i \in 1..MaxMergeBranches}

\* the names in the order of Array.prototype.sort() and of git's listing:
\* by code unit, capitals first
CodeUnitOrder == <<"Fix", "f1", "f2", "f3", "main", "master">>

\* the names in the order of String.prototype.localeCompare
LocaleOrder == <<"f1", "f2", "f3", "Fix", "main", "master">>

\* an undefined field of a check
Undefined == -1

\* what git answers about one branch against the reference: whether a merge
\* base exists, the --cherry-pick count, whether the tip is an ancestor, and
\* which of the three commands fails.  A tip that is an ancestor has a merge
\* base and no commit of its own; a branch without a merge base has commits
\* of its own.
GitAnswers ==
  {a \in [base : BOOLEAN, count : 0..1, ancestor : BOOLEAN,
          fails : {"none", "mergeBase", "count", "ancestor"}] :
     /\ a.ancestor => (a.base /\ a.count = 0)
     /\ ~a.base => a.count > 0}

\* names.sort() against an order
RECURSIVE SortNames(_, _)
SortNames(names, order) ==
  IF order = <<>> THEN <<>>
  ELSE SelectSeq(names, LAMBDA n : n = Head(order))
         \o SortNames(names, Tail(order))

\* SortChecks leaving the list as it is
SortChecks_Unsorted(checks, order) == checks

\* unmerged.sort((a, b) => a.branch.localeCompare(b.branch))
RECURSIVE SortChecks(_, _)
SortChecks(checks, order) ==
  IF order = <<>> THEN <<>>
  ELSE SelectSeq(checks, LAMBDA c : c.branch = Head(order))
         \o SortChecks(checks, Tail(order))

\* the filter on the listing: not the reference, not a trunk name
Listed(local, mainBranch) ==
  SelectSeq(CodeUnitOrder,
            LAMBDA b : b \in local /\ b /= mainBranch
                       /\ b /= "master" /\ b /= "main")

\* Merged for a check that needs the tip to be an ancestor
Merged_AncestorOnly(count, isReachable) == isReachable

\* merged: count === 0 || isReachable
Merged(count, isReachable) == count = 0 \/ isReachable

\* Reason looking at the count first
Reason_CountFirst(count, isReachable) ==
  IF count = 0 THEN "all-changes-in-main"
  ELSE IF isReachable THEN "reachable-from-main"
  ELSE "has-unmerged-changes"

\* reason: isReachable ? ... : count === 0 ? ... : ...
Reason(count, isReachable) ==
  IF isReachable THEN "reachable-from-main"
  ELSE IF count = 0 THEN "all-changes-in-main"
  ELSE "has-unmerged-changes"

NoAncestorCheck(branch) ==
  [branch |-> branch, merged |-> FALSE, reason |-> "no-common-ancestor",
   unmergedCount |-> Undefined]

ErrorCheck(branch) ==
  [branch |-> branch, merged |-> FALSE, reason |-> "error",
   unmergedCount |-> Undefined]

FullCheck(branch, count, isReachable) ==
  [branch |-> branch, merged |-> Merged(count, isReachable),
   reason |-> Reason(count, isReachable), unmergedCount |-> count]

\* one branch's check run on its own, from the first query to the last
CheckBranch(branch, answers) ==
  IF answers.fails = "mergeBase" \/ ~answers.base
    THEN NoAncestorCheck(branch)
  ELSE IF answers.fails = "count" THEN ErrorCheck(branch)
  ELSE FullCheck(branch, answers.count,
                 answers.ancestor /\ answers.fails /= "ancestor")

\* the two lists returned
Partition(branchChecks) ==
  LET merged   == SelectSeq(branchChecks, LAMBDA c : c.merged)
      unmerged == SelectSeq(branchChecks, LAMBDA c : ~c.merged)
  IN [merged   |-> SortNames([i \in 1..Len(merged) |-> merged[i].branch],
                             CodeUnitOrder),
      unmerged |-> SortChecks([i \in 1..Len(unmerged) |->
                                 [branch |-> unmerged[i].branch,
                                  reason |-> unmerged[i].reason,
                                  unmergedCount |-> unmerged[i].unmergedCount]],
                              LocaleOrder)]

EmptyPartition == [merged |-> <<>>, unmerged |-> <<>>]

\* StoreCheck with one slot for all the checks
StoreCheck_SharedSlot(checks, branch, check) ==
  [b \in DOMAIN checks |-> <<check>>]

\* the value a branch's promise resolves to
StoreCheck(checks, branch, check) == [checks EXCEPT ![branch] = <<check>>]

MergeFrame ==
  /\ pc = "idle"
  /\ calls' = <<>>
  /\ UNCHANGED <<stacksFile, repo, invocations, result, gitVars, cascadeVars, io, sy>>

\* a check has returned
Resolve(branch, check) ==
  md' = [md EXCEPT !.at[branch] = "done",
                   !.checks = StoreCheck(@, branch, check),
                   !.finished = Append(@, branch)]

\* getMergedBranches(mainBranch) up to Promise.all: the listing, which may
\* fail, and the early return without candidates
ListBranches(mainBranch, listFails) ==
  /\ md.phase = "idle"
  /\ op' = "getMergedBranches"
  /\ args' = <<mainBranch>>
  /\ IF listFails
       THEN /\ md' = [md EXCEPT !.phase = "returned", !.mainBranch = mainBranch,
                                !.out = EmptyPartition]
            /\ Exit0("ListFailed")
       ELSE IF Listed(md.local, mainBranch) = <<>>
         THEN /\ md' = [md EXCEPT !.phase = "returned", !.mainBranch = mainBranch,
                                  !.out = EmptyPartition]
              /\ Exit0("ok")
         ELSE /\ md' = [md EXCEPT !.phase = "checking", !.mainBranch = mainBranch,
                                  !.allBranches = Listed(md.local, mainBranch)]
              /\ Exit0("checking")
  /\ MergeFrame

\* git merge-base mainBranch branch, .catch(() => null)
CheckMergeBase(branch) ==
  /\ md.phase = "checking"
  /\ Includes(md.allBranches, branch)
  /\ md.at[branch] = "mergeBase"
  /\ IF md.git[branch].fails = "mergeBase" \/ ~md.git[branch].base
       THEN Resolve(branch, NoAncestorCheck(branch))
       ELSE md' = [md EXCEPT !.at[branch] = "count"]
  /\ UNCHANGED <<op, args, outcome, exitCode>>
  /\ MergeFrame

\* git rev-list --count --cherry-pick --right-only: a failure goes to the
\* catch of the check
CheckCount(branch) ==
  /\ md.phase = "checking"
  /\ Includes(md.allBranches, branch)
  /\ md.at[branch] = "count"
  /\ IF md.git[branch].fails = "count"
       THEN Resolve(branch, ErrorCheck(branch))
       ELSE md' = [md EXCEPT !.at[branch] = "ancestor"]
  /\ UNCHANGED <<op, args, outcome, exitCode>>
  /\ MergeFrame

\* git merge-base --is-ancestor: any failure is "not reachable"
CheckAncestor(branch) ==
  /\ md.phase = "checking"
  /\ Includes(md.allBranches, branch)
  /\ md.at[branch] = "ancestor"
  /\ Resolve(branch,
             FullCheck(branch, md.git[branch].count,
                       md.git[branch].ancestor
                         /\ md.git[branch].fails /= "ancestor"))
  /\ UNCHANGED <<op, args, outcome, exitCode>>
  /\ MergeFrame

\* Promise.all has resolved: the checks in the order of allBranches
Gather ==
  /\ md.phase = "checking"
  /\ \A i \in 1..Len(md.allBranches) : md.at[md.allBranches[i]] = "done"
  /\ md' = [md EXCEPT !.phase = "returned",
                      !.out = Partition([i \in 1..Len(md.allBranches) |->
                                           md.checks[md.allBranches[i]][1]])]
  /\ Exit0("ok")
  /\ UNCHANGED <<op, args>>
  /\ MergeFrame

InitMerge ==
  /\ \E C \in SUBSET Candidates : \E g \in [C -> GitAnswers] :
       md = [phase |-> "idle", mainBranch |-> Null,
             local |-> {"main", "master"} \cup C, git |-> g,
             allBranches |-> <<>>, at |-> [b \in C |-> "mergeBase"],
             checks |-> [b \in C |-> <<>>], finished |-> <<>>,
             out |-> EmptyPartition]
  /\ io = <<>>
  /\ sy = <<>>
  /\ stacksFile = EmptyFile
  /\ repo = "r1"
  /\ gitBranches = {"main"}
  /\ head = "main"
  /\ dirty = FALSE
  /\ InitIdle

NextMerge ==
  \/ \E m \in {"main", "master"}, f \in BOOLEAN : ListBranches(m, f)
  \/ \E b \in Candidates : CheckMergeBase(b)
  \/ \E b \in Candidates : CheckCount(b)
  \/ \E b \in Candidates : CheckAncestor(b)
  \/ Gather

SpecMerge == InitMerge /\ [][NextMerge]_vars

\* the branches checked in a finished run
Checked == Range(md.allBranches)

Returned == md.phase = "returned" /\ outcome = "ok"

\* C23: of the branches whose three queries all succeed, those in the merged
\* list are exactly the ones with a merge base and with either no commit of
\* their own by patch identity or a tip that is an ancestor of the reference
C23_MergedExactly ==
  Returned =>
    \A b \in Checked :
      md.git[b].fails = "none" =>
        (b \in Range(md.out.merged)
           <=> /\ md.git[b].base
               /\ md.git[b].count = 0 \/ md.git[b].ancestor)

\* a squash-merged branch is in the merged list and a branch without a merge
\* base is not
C23_Witness ==
  /\ Returned
  /\ \E b \in Checked :
       /\ md.git[b].fails = "none" /\ md.git[b].base
       /\ md.git[b].count = 0 /\ ~md.git[b].ancestor
       /\ b \in Range(md.out.merged)
  /\ \E b \in Checked :
       /\ md.git[b].fails = "none" /\ ~md.git[b].base
       /\ b \notin Range(md.out.merged)

\* the check of branch b as Promise.all received it
CheckOf(b) == md.checks[b][1]

\* C24: with all three queries succeeding, a branch with a merge base and a
\* zero count is merged with reason all-changes-in-main, a branch without a
\* merge base is unmerged with reason no-common-ancestor, a branch with a
\* non-zero count that is not an ancestor has reason has-unmerged-changes, and
\* a branch whose tip is an ancestor has reason reachable-from-main
C24_ReasonByQueryResults ==
  Returned =>
    \A b \in Checked :
      md.git[b].fails = "none" =>
        /\ (md.git[b].base /\ md.git[b].count = 0) =>
             (CheckOf(b).merged /\ CheckOf(b).reason = "all-changes-in-main")
        /\ ~md.git[b].base =>
             (~CheckOf(b).merged /\ CheckOf(b).reason = "no-common-ancestor")
        /\ (md.git[b].base /\ md.git[b].count /= 0 /\ ~md.git[b].ancestor) =>
             CheckOf(b).reason = "has-unmerged-changes"
        /\ (md.git[b].base /\ md.git[b].ancestor) =>
             CheckOf(b).reason = "reachable-from-main"

\* C24 (amended): the same, with all-changes-in-main only for a zero count
\* whose tip is not an ancestor of the reference; the ancestor check decides
\* first
C24_ReasonAncestorFirst ==
  Returned =>
    \A b \in Checked :
      md.git[b].fails = "none" =>
        /\ (md.git[b].base /\ md.git[b].count = 0 /\ ~md.git[b].ancestor) =>
             (CheckOf(b).merged /\ CheckOf(b).reason = "all-changes-in-main")
        /\ ~md.git[b].base =>
             (~CheckOf(b).merged /\ CheckOf(b).reason = "no-common-ancestor")
        /\ (md.git[b].base /\ md.git[b].count /= 0 /\ ~md.git[b].ancestor) =>
             (~CheckOf(b).merged /\ CheckOf(b).reason = "has-unmerged-changes")
        /\ (md.git[b].base /\ md.git[b].ancestor) =>
             (CheckOf(b).merged /\ CheckOf(b).reason = "reachable-from-main")

\* a branch with a zero count reported as reachable-from-main
C24_Witness ==
  /\ Returned
  /\ \E b \in Checked :
       /\ md.git[b].fails = "none"
       /\ CheckOf(b).unmergedCount = 0
       /\ CheckOf(b).reason = "reachable-from-main"

\* C25: a branch one of whose three queries fails is unmerged with reason
\* error and is not in the merged list
C25_FailedQueryIsError ==
  Returned =>
    \A b \in Checked :
      md.git[b].fails /= "none" =>
        /\ ~CheckOf(b).merged
        /\ CheckOf(b).reason = "error"
        /\ b \notin Range(md.out.merged)

\* the position of a name in an order
Rank(order, n) == CHOOSE k \in 1..Len(order) : order[k] = n

IsSorted(names, order) ==
  \A i, j \in 1..Len(names) :
    i < j => Rank(order, names[i]) < Rank(order, names[j])

UnmergedNames == [i \in 1..Len(md.out.unmerged) |-> md.out.unmerged[i].branch]

\* merged and unmerged share no branch, hold between them exactly the local
\* branches other than the reference and the trunk names, and are each in
\* ascending order (merged as sort() orders names, unmerged as localeCompare
\* does)
IsPartition ==
  /\ Range(md.out.merged) \cap Range(UnmergedNames) = {}
  /\ Range(md.out.merged) \cup Range(UnmergedNames)
       = md.local \ {md.mainBranch, "main", "master"}
  /\ IsSorted(md.out.merged, CodeUnitOrder)
  /\ IsSorted(UnmergedNames, LocaleOrder)

C27_OrderIndependent ==
  Returned =>
    md.out = Partition([i \in 1..Len(md.allBranches) |->
                          CheckBranch(md.allBranches[i],
                                      md.git[md.allBranches[i]])])

\* the checks finished in another order than they were issued, with a branch
\* in each list
C27_Witness ==
  /\ Returned
  /\ Len(md.finished) >= 2
  /\ md.finished /= md.allBranches
  /\ md.out.merged /= <<>>
  /\ md.out.unmerged /= <<>>

\* ------------------------------------------------------------------------
\* The stacks file on disk: loadStacks and saveStacks of two invocations
\* (src/utils/stack.js)
\* ------------------------------------------------------------------------

Writers == {1, 2}

\* the calls an invocation may make: createStack, addBranchToStack,
\* removeBranchFromStack
WriterCalls ==
  {<<"createStack", StackNameList[1], "main">>}
    \cup {<<"addBranch", StackNameList[1], b, "main">> : b \in StoreFeatures}
    \cup {<<"removeBranch", b>> : b \in StoreFeatures}

\* what may be on disk: nothing, an empty stack, a stack of one branch
DiskFiles ==
  {EmptyFile,
   createStackFile(EmptyFile, "r1", StackNameList[1], "main"),
   addBranchFile(createStackFile(EmptyFile, "r1", StackNameList[1], "main"),
                 "r1", StackNameList[1], "f1", "main")}

\* fs.mkdir(GAP_DIR, {recursive: true}) throws
MkdirFails == io.dir = "blocked"

\* fs.readFile or JSON.parse throws
ReadFails == io.dir = "blocked" \/ io.file /= "valid"

\* WriteFails with every write going through
WriteFails_Never == FALSE

\* fs.writeFile throws: no directory to write into, or the file cannot be
\* written
WriteFails == io.dir = "blocked" \/ ~io.writable

\* loadStacks: {} on any error
loadStacks == IF ReadFails THEN EmptyFile ELSE stacksFile

\* WorkingCopy reading the file again at the time of the save
WorkingCopy_Reloaded(local, disk) == disk

\* the structure a call mutates is the one it loaded
WorkingCopy(local, disk) == local

\* the structure a call hands to saveStacks
Mutated(call, stacks) ==
  IF call[1] = "createStack"
    THEN createStackFile(stacks, repo, call[2], call[3])
  ELSE IF call[1] = "addBranch"
    THEN addBranchFile(stacks, repo, call[2], call[3], call[4])
  ELSE removeBranchFile(stacks, repo, call[2])

\* addBranchToStack throws before saving
Throws(call, stacks) ==
  call[1] = "addBranch" /\ ~HasStack(stacks[repo], call[2])

\* the call reaches saveStacks: createStack and removeBranchFromStack always,
\* addBranchToStack when it appended the branch
Saves(call, stacks) ==
  IF call[1] = "addBranch"
    THEN /\ HasStack(stacks[repo], call[2])
         /\ ~AlreadyMember(stacks[repo][StackIndex(stacks[repo], call[2])], call[3])
    ELSE TRUE

FileFrame ==
  /\ pc = "idle"
  /\ calls' = <<>>
  /\ UNCHANGED <<repo, invocations, result, gitVars, cascadeVars, md, sy>>

\* the call of invocation w up to the return of loadStacks; ensureGapDir
\* logs a failed mkdir and goes on
LoadStep(w, call) ==
  /\ io.writers[w].at = "start"
  /\ io' = [io EXCEPT !.writers[w] =
              [@ EXCEPT !.at = "loaded", !.call = call, !.local = loadStacks,
                        !.logged = IF MkdirFails THEN @ \cup {"read"} ELSE @]]
  /\ UNCHANGED <<stacksFile, op, args, outcome, exitCode>>
  /\ FileFrame

\* the rest of the call: the mutation and saveStacks
SaveStep(w) ==
  /\ io.writers[w].at = "loaded"
  /\ LET call   == io.writers[w].call
         stacks == WorkingCopy(io.writers[w].local, loadStacks)
         done   == [io.writers[w] EXCEPT !.at = "done"]
     IN /\ op' = call[1]
        /\ args' = Tail(call)
        /\ IF Throws(call, stacks)
             THEN /\ Exit1("NotFound")
                  /\ io' = [io EXCEPT !.writers[w] = done]
                  /\ UNCHANGED stacksFile
             ELSE IF ~Saves(call, stacks)
               THEN /\ Exit0("ok")
                    /\ io' = [io EXCEPT !.writers[w] = done]
                    /\ UNCHANGED stacksFile
             ELSE IF WriteFails
               THEN /\ Exit1("PersistenceFailure")
                    /\ io' = [io EXCEPT !.writers[w] =
                                [done EXCEPT !.logged =
                                   IF MkdirFails THEN @ \cup {"write"} ELSE @]]
                    /\ UNCHANGED stacksFile
             ELSE /\ Exit0("ok")
                  /\ stacksFile' = Mutated(call, stacks)
                  /\ io' = [io EXCEPT
                       !.file = "valid",
                       !.saved = Append(@, w),
                       !.writers = [v \in Writers |->
                          IF v = w THEN done
                          ELSE IF io.writers[v].at = "loaded"
                            THEN [io.writers[v] EXCEPT !.stale = TRUE]
                          ELSE io.writers[v]]]
  /\ FileFrame

InitFile ==
  /\ \E d \in {"ok", "blocked"},
        f \in {"valid", "missing", "unreadable", "unparsable"},
        wr \in BOOLEAN :
       /\ d = "blocked" => (f = "missing" /\ ~wr)
       /\ io = [dir |-> d, file |-> f, writable |-> wr, saved |-> <<>>,
                writers |-> [w \in Writers |->
                   [at |-> "start", call |-> <<>>, local |-> EmptyFile,
                    stale |-> FALSE, logged |-> {}]]]
       /\ IF f = "valid" THEN stacksFile \in DiskFiles
          ELSE stacksFile = EmptyFile
  /\ md = <<>>
  /\ sy = <<>>
  /\ repo = "r1"
  /\ gitBranches = {"main"}
  /\ head = "main"
  /\ dirty = FALSE
  /\ InitIdle

NextFile ==
  \/ \E w \in Writers, call \in WriterCalls : LoadStep(w, call)
  \/ \E w \in Writers : SaveStep(w)

SpecFile == InitFile /\ [][NextFile]_vars

\* the members of every stack in the file
StoredBranches ==
  UNION {Range(stacksFile["r1"][i].branches) : i \in 1..Len(stacksFile["r1"])}

\* the branch an addBranch or removeBranch call names
CallBranch(call) == IF call[1] = "addBranch" THEN call[3] ELSE call[2]

\* C28: when two invocations have both saved and the second to save had
\* loaded before the first saved, the first one's update is missing from the
\* file: the branch it added is in no stack, the branch it removed is still
\* in one (the two calls being addBranch or removeBranch of different branches)
C28_LostUpdate ==
  \A p, q \in Writers :
    (/\ io.saved = <<p, q>>
     /\ io.writers[q].stale
     /\ io.writers[p].call[1] /= "createStack"
     /\ io.writers[q].call[1] /= "createStack"
     /\ CallBranch(io.writers[p].call) /= CallBranch(io.writers[q].call))
    => /\ io.writers[p].call[1] = "addBranch"
            => io.writers[p].call[3] \notin StoredBranches
       /\ (/\ io.writers[p].call[1] = "removeBranch"
           /\ io.writers[p].call[2] \in
                UNION {Range(io.writers[p].local["r1"][i].branches) :
                         i \in 1..Len(io.writers[p].local["r1"])})
            => io.writers[p].call[2] \in StoredBranches

\* both invocations added a branch and reported success, and the file has
\* only the second one's
C28_Witness ==
  \E p, q \in Writers :
    /\ io.saved = <<p, q>>
    /\ io.writers[q].stale
    /\ io.writers[p].call[1] = "addBranch"
    /\ io.writers[q].call[1] = "addBranch"
    /\ io.writers[p].call[3] /= io.writers[q].call[3]
    /\ io.writers[p].call[3] \notin StoredBranches
    /\ io.writers[q].call[3] \in StoredBranches

C30_ContinuedBranchNotRebasedAgain ==
  [][/\ (pc = "idle" /\ op' = "continue" /\ pc' = "loop") =>
          todo' = SelectSeq(modifyState[1].downstreamBranches,
                            LAMBDA b : b \notin doneSet')
     /\ \A onto, branch \in Branches :
          RebaseIssued(onto, branch) => branch \notin doneSet]_vars

\* ------------------------------------------------------------------------
\* The stack operations over a file that already holds stacks, those of a
\* second repository included (src/utils/stack.js)
\* ------------------------------------------------------------------------

\* stacks.json as earlier invocations left it: a stack in the other
\* repository, and in this one nothing or the stack that lists f1
LocalFiles ==
  {[r \in Repos |-> IF r = "r1" THEN rs ELSE <<OtherStack>>] :
     rs \in {<<>>, <<OtherStack>>}}

InitLocal ==
  /\ stacksFile \in LocalFiles
  /\ repo \in {"r1", NoRepo}
  /\ gitBranches = StoreBranches
  /\ head = "main"
  /\ dirty = FALSE
  /\ md = <<>>
  /\ io = <<>>
  /\ sy = <<>>
  /\ InitIdle

SpecLocal == InitLocal /\ [][NextOps]_vars

\* C31: createStack(n, base) on a name the repository already has succeeds and
\* puts the fresh record (base, no branches, no branchParents) in the place of
\* the old one, after which no branch of the old record is found in any stack;
\* the other stacks of the repository and the other repositories stay as they
\* were
C31_CreateStackReplaces ==
  [][(/\ op' = "createStack"
      /\ invocations' = invocations + 1
      /\ repo /= NoRepo
      /\ HasStack(stacksFile[repo], args'[1])) =>
       LET rs  == stacksFile[repo]
           k   == StackIndex(rs, args'[1])
           old == rs[k]
       IN /\ exitCode' = 0
          /\ Len(stacksFile'[repo]) = Len(rs)
          /\ stacksFile'[repo][k] = NewStack(args'[1], args'[2])
          /\ \A i \in 1..Len(rs) : i /= k => stacksFile'[repo][i] = rs[i]
          /\ \A r \in Repos \ {repo} : stacksFile'[r] = stacksFile[r]
          /\ \A b \in Range(old.branches) :
               getStackForBranch(stacksFile', repo, b) = <<>>]_vars

\* C32: when gap create n succeeds with c checked out, the stack found for c
\* lists n, the parent of n is c, the children of c include n and n is
\* checked out; when no stack listed c before, the stack named at the prompt
\* exists afterwards
C32_CreateStacksOnCurrent ==
  [][(/\ op' = "create"
      /\ invocations' = invocations + 1
      /\ outcome' = "Created") =>
       LET c     == head
           n     == args'[1]
           found == getStackForBranch(stacksFile', repo, c)
       IN /\ found /= <<>>
          /\ Includes(found[1].branches, n)
          /\ getParentBranch(stacksFile', repo, n) = c
          /\ n \in getChildBranches(stacksFile', repo, c)
          /\ head' = n
          /\ getStackForBranch(stacksFile, repo, c) = <<>>
               => HasStack(stacksFile'[repo], args'[2])]_vars

\* ------------------------------------------------------------------------
\* gap sync --delete-merged (src/commands/sync.js)
\* ------------------------------------------------------------------------

\* the stacks file of a repository used through gap create, alone or next to
\* a second stack that lists f1 as well
SyncFiles ==
  {BuiltFile(n, f) : n \in 0..MaxStoreFeatures, f \in BOOLEAN}
    \cup {[BuiltFile(n, f) EXCEPT !["r1"] = Append(@, OtherStack)] :
            n \in 0..MaxStoreFeatures, f \in BOOLEAN}

\* the lists getMergedBranches may hand to the loop: local branches other
\* than the trunk names, sorted
MergedLists ==
  {SortNames(q, CodeUnitOrder) : q \in {<<>>} \cup InjectiveSeqs(gitBranches \ {"main"})}

\* a step of the sync command leaves the cascade and the other runs alone
SyncFrame ==
  /\ pc = "idle"
  /\ calls' = <<>>
  /\ UNCHANGED <<repo, invocations, args, result, dirty, rebasing, cascadeVars,
                 md, io>>

\* gap sync up to the deletion loop: the fetch, the repository check, the
\* pull and, with --delete-merged, the merged branches and the confirmation
SyncBegin(deleteMerged, confirmDelete, fails, mergedBranches) ==
  /\ sy.phase = "idle"
  /\ op' = "sync"
  /\ IF fails = "fetch"
       THEN /\ Exit1("FetchFailed")
            /\ sy' = [sy EXCEPT !.phase = "done"]
       ELSE IF repo = NoRepo
         THEN /\ Exit1("NotInRepo")
              /\ sy' = [sy EXCEPT !.phase = "done"]
       ELSE IF fails = "pull"
         THEN /\ Exit1("PullFailed")
              /\ sy' = [sy EXCEPT !.phase = "done"]
       ELSE IF ~deleteMerged \/ mergedBranches = <<>>
         THEN /\ Exit0("Checking")
              /\ sy' = [sy EXCEPT !.phase = "loop"]
       ELSE IF ~confirmDelete
         THEN /\ Exit0("Skipped")
              /\ sy' = [sy EXCEPT !.phase = "done", !.merged = mergedBranches]
       ELSE /\ Exit0("Deleting")
            /\ sy' = [sy EXCEPT !.phase = "loop", !.merged = mergedBranches]
  /\ UNCHANGED <<stacksFile, gitBranches, head>>
  /\ SyncFrame

\* git branch -d: refused for the checked-out branch and for a branch git
\* does not hold fully merged
DeleteSucceeds(branch, gitAccepts) ==
  branch \in gitBranches /\ branch /= head /\ gitAccepts

\* one round of the deletion loop: deleteBranch, then removeBranchFromStack,
\* whose saveStacks may throw; the catch reports either failure and the loop
\* goes on
DeleteStep(gitAccepts, writeFails) ==
  /\ sy.phase = "loop"
  /\ sy.next <= Len(sy.merged)
  /\ LET branch == sy.merged[sy.next]
     IN IF DeleteSucceeds(branch, gitAccepts)
          THEN /\ gitBranches' = gitBranches \ {branch}
               /\ IF writeFails
                    THEN /\ outcome' = "FailedToDelete"
                         /\ sy' = [sy EXCEPT !.next = @ + 1,
                                             !.log = Append(@, <<branch, "Failed">>)]
                         /\ UNCHANGED stacksFile
                    ELSE /\ outcome' = "Deleted"
                         /\ stacksFile' = removeBranchFile(stacksFile, repo, branch)
                         /\ sy' = [sy EXCEPT !.next = @ + 1,
                                             !.log = Append(@, <<branch, "Deleted">>)]
          ELSE /\ outcome' = "FailedToDelete"
               /\ sy' = [sy EXCEPT !.next = @ + 1,
                                   !.log = Append(@, <<branch, "Failed">>)]
               /\ UNCHANGED <<stacksFile, gitBranches>>
  /\ UNCHANGED <<op, exitCode, head>>
  /\ SyncFrame

\* the report of the staged branches without a remote, and the end of the
\* command
SyncFinish(listingFails) ==
  /\ sy.phase = "loop"
  /\ sy.next > Len(sy.merged)
  /\ sy' = [sy EXCEPT !.phase = "done"]
  /\ IF listingFails THEN Exit1("ListingFailed") ELSE Exit0("SyncComplete")
  /\ UNCHANGED <<stacksFile, gitBranches, head, op>>
  /\ SyncFrame

InitSync ==
  /\ stacksFile \in SyncFiles
  /\ repo \in {"r1", NoRepo}
  /\ gitBranches = StoreBranches
  /\ head \in StoreBranches
  /\ dirty \in BOOLEAN
  /\ md = <<>>
  /\ io = <<>>
  /\ sy = [phase |-> "idle", merged |-> <<>>, next |-> 1, log |-> <<>>]
  /\ InitIdle

NextSync ==
  \/ \E d, c \in BOOLEAN, f \in {"none", "fetch", "pull"}, m \in MergedLists :
       SyncBegin(d, c, f, m)
  \/ \E g, w \in BOOLEAN : DeleteStep(g, w)
  \/ \E l \in BOOLEAN : SyncFinish(l)

SpecSync == InitSync /\ [][NextSync]_vars

\* the branch of the round of the deletion loop that a step runs
Deleting == sy.merged[sy.next]

\* a step is a round of the deletion loop
DeleteRound == sy.phase = "loop" /\ sy'.next = sy.next + 1

InSomeStack(file, branch) ==
  \E i \in 1..Len(file[repo]) : branch \in Range(file[repo][i].branches)

\* C33: in a round of the deletion loop of sync, a failed git deletion leaves
\* the stacks file as it was and the loop goes on to the next merged branch;
\* a successful one leaves the branch in no stack; and no stack loses the
\* branch while its git branch remains
C33_RemovedOnlyAfterDeletion ==
  [][DeleteRound =>
       /\ Deleting \in gitBranches' =>
            /\ stacksFile' = stacksFile
            /\ sy'.phase = "loop"
       /\ (Deleting \in gitBranches /\ Deleting \notin gitBranches') =>
            ~InSomeStack(stacksFile', Deleting)
       /\ (InSomeStack(stacksFile, Deleting) /\ ~InSomeStack(stacksFile', Deleting))
            => Deleting \notin gitBranches']_vars

\* ------------------------------------------------------------------------
\* Further claims about the cascade
\* ------------------------------------------------------------------------

\* following parents from b in the stack arrives at c
RECURSIVE DescendsFrom(_, _, _, _)
DescendsFrom(stack, b, c, fuel) ==
  /\ fuel > 0
  /\ \/ parentInStack(stack, b) = c
     \/ DescendsFrom(stack, parentInStack(stack, b), c, fuel - 1)

\* the record of the stack the running cascade was started in
CascadeStack ==
  stacksFile[repo][StackIndex(stacksFile[repo], modifyState[1].stack)]

\* C34: every rebase of a cascade takes a branch whose parent chain in the
\* stack arrives at the start branch, and rebases it onto its own parent
C34_RebasesDescendantsOntoParents ==
  [][\A onto, branch \in Branches :
       RebaseIssued(onto, branch) =>
         /\ DescendsFrom(CascadeStack, branch, origin, Len(CascadeStack.branches))
         /\ onto = getParentBranch(stacksFile, repo, branch)]_vars

\* the downstream branches not yet brought up to date
StillToRebase == Range(modifyState[1].downstreamBranches) \ doneSet

\* C35: every Continue whose rebase continuation succeeds finishes a branch
\* that was not finished before, and the branches it goes on to rebase are a
\* strict subset of those still to be rebased at the pause it was invoked in;
\* so the Continues of one cascade are at most as many as its downstream
\* branches
C35_ContinueMakesProgress ==
  [][(pc = "idle" /\ op' = "continue" /\ rebasing /= None /\ rebasing' = None) =>
       /\ rebasing \notin doneSet
       /\ pc' = "loop" =>
            /\ Range(todo') \subseteq StillToRebase
            /\ Range(todo') /= StillToRebase]_vars

\* C36: between invocations, whenever a cascade state is persisted, a
\* Continue or an Abort that does not fail is possible
C36_PersistedStateCanBeCleared ==
  (pc = "idle" /\ modifyState /= <<>>) =>
    ENABLED (ContinueDone \/ ContinueResume \/ AbortDone)

\* C37: a gap modify invoked while a cascade state is persisted starts no
\* cascade and leaves the persisted state as it is
C37_StartOnlyFromIdle ==
  [][(pc = "idle" /\ modifyState /= <<>> /\ op' = "modify") =>
       /\ modifyState' = modifyState
       /\ pc' = "idle"]_vars

\* ------------------------------------------------------------------------
\* Further claims about the stack operations
\* ------------------------------------------------------------------------

\* C38: addBranch(s, b, p) leaves every record of the repository but the one
\* named s as it was, in its place; removeBranch(b) keeps every record that
\* did not list b as it was and adds none; and both leave the stacks of every
\* other repository as they were
C38_MutationsAreLocal ==
  [][(invocations' = invocations + 1 /\ op' \in {"addBranch", "removeBranch"}) =>
       /\ \A r \in Repos \ {repo} : stacksFile'[r] = stacksFile[r]
       /\ (repo /= NoRepo /\ op' = "addBranch") =>
            /\ Len(stacksFile'[repo]) = Len(stacksFile[repo])
            /\ \A i \in 1..Len(stacksFile[repo]) :
                 stacksFile[repo][i].name /= args'[1]
                   => stacksFile'[repo][i] = stacksFile[repo][i]
       /\ (repo /= NoRepo /\ op' = "removeBranch") =>
            /\ \A i \in 1..Len(stacksFile[repo]) :
                 args'[1] \notin Range(stacksFile[repo][i].branches)
                   => \E j \in 1..Len(stacksFile'[repo]) :
                        stacksFile'[repo][j] = stacksFile[repo][i]
            /\ \A j \in 1..Len(stacksFile'[repo]) :
                 \E i \in 1..Len(stacksFile[repo]) :
                   stacksFile'[repo][j].name = stacksFile[repo][i].name]_vars

\* removeBranch has taken a branch out of one of two stacks of the repository
\* while a stack of the other repository lists a branch of the same name
C38_Witness ==
  /\ op = "removeBranch"
  /\ outcome = "Removed"
  /\ repo = "r1"
  /\ Len(stacksFile["r1"]) = 2
  /\ ~InSomeStack(stacksFile, args[1])
  /\ \E i \in 1..Len(stacksFile["r2"]) :
       args[1] \in Range(stacksFile["r2"][i].branches)

\* ------------------------------------------------------------------------
\* gap up and gap down (src/commands/up.js)
\* ------------------------------------------------------------------------

\* stacks files as gap create builds them, and as removeBranchFromStack
\* leaves them when sync has deleted a merged branch
NavFiles ==
  SyncFiles \cup {removeBranchFile(f, "r1", b) : f \in SyncFiles, b \in StoreFeatures}

\* a navigation command writes neither the stacks file nor the cascade state
NavFrame ==
  /\ pc = "idle"
  /\ result' = <<>>
  /\ UNCHANGED <<stacksFile, repo, invocations, gitBranches, dirty, rebasing,
                 cascadeVars, otherVars>>

\* git checkout <branch> from a clean tree
Checkout(branch) ==
  IF branch \in gitBranches
    THEN /\ head' = branch
         /\ Exit0("Switched")
    ELSE /\ head' = head
         /\ Exit1("CheckoutFailed")

\* gap up, the prompt among several children answered selected
UpCmd(selected) ==
  /\ op' = "up"
  /\ args' = <<head>>
  /\ IF ~IsClean
       THEN /\ Exit1("DirtyTree")
            /\ UNCHANGED head
            /\ calls' = <<>>
     ELSE IF getStackForBranch(stacksFile, repo, head) = <<>>
       THEN /\ Exit0("NotStaged")
            /\ UNCHANGED head
            /\ calls' = <<>>
     ELSE IF getChildBranches(stacksFile, repo, head) = {}
       THEN /\ Exit0("NoChild")
            /\ UNCHANGED head
            /\ calls' = <<>>
     ELSE /\ selected \in getChildBranches(stacksFile, repo, head)
          /\ calls' = <<<<"checkout", selected>>>>
          /\ Checkout(selected)
  /\ NavFrame

\* gap down
DownCmd ==
  /\ op' = "down"
  /\ args' = <<head>>
  /\ IF ~IsClean
       THEN /\ Exit1("DirtyTree")
            /\ UNCHANGED head
            /\ calls' = <<>>
     ELSE IF getStackForBranch(stacksFile, repo, head) = <<>>
       THEN /\ Exit0("NotStaged")
            /\ UNCHANGED head
            /\ calls' = <<>>
     ELSE LET parentBranch == getParentBranch(stacksFile, repo, head)
          IN IF parentBranch = head
               THEN /\ Exit0("NoParent")
                    /\ UNCHANGED head
                    /\ calls' = <<>>
               ELSE /\ calls' = <<<<"checkout", parentBranch>>>>
                    /\ Checkout(parentBranch)
  /\ NavFrame

InitNav ==
  /\ stacksFile \in NavFiles
  /\ repo \in {"r1", NoRepo}
  /\ \E S \in SUBSET StoreFeatures : gitBranches = {"main"} \cup S
  /\ head \in gitBranches
  /\ dirty \in BOOLEAN
  /\ md = <<>>
  /\ io = <<>>
  /\ sy = <<>>
  /\ InitIdle

NextNav ==
  \/ \E b \in StoreBranches : UpCmd(b)
  \/ DownCmd

SpecNav == InitNav /\ [][NextNav]_vars

\* C39: a gap down issued right after a gap up that switched from c to a child
\* checks out c again; gap up without a child and gap down on a branch that is
\* its own parent check nothing out, and neither command checks anything out
\* from a dirty tree or from a branch that is in no stack
C39_UpThenDownReturns ==
  [][/\ (op = "up" /\ outcome = "Switched" /\ op' = "down") => head' = args[1]
     /\ (/\ op' \in {"up", "down"}
         /\ \/ dirty
            \/ getStackForBranch(stacksFile, repo, head) = <<>>
            \/ op' = "up" /\ getChildBranches(stacksFile, repo, head) = {}
            \/ op' = "down" /\ getParentBranch(stacksFile, repo, head) = head)
          => (head' = head /\ calls' = <<>>)]_vars

====
